---- MODULE Spec2Model ----
(***************************************************************************)
(* Pause/stop controller and chunked transcription loop of mp3_to_text.py. *)
(*                                                                         *)
(* Two threads: the controlling (UI) thread, which calls the public        *)
(* methods of TaskController, and the worker thread, which runs            *)
(* transcribe_audio_baidu / transcribe_large_audio_baidu with a progress   *)
(* callback and a task controller, as the Qt application calls them.       *)
(*                                                                         *)
(* Python strings are modelled as sequences of tokens.  The literals of    *)
(* the source are Chinese; each literal is one ASCII token here:           *)
(*   "STOPPED_BY_USER"  for the literal returned at lines 243 and 250,     *)
(*   "BAIDU_ERROR"      for the prefix built at line 203,                  *)
(*   "BAIDU_EXCEPTION"  for the prefix built at line 208,                  *)
(*   "LARGE_ERROR"      for the prefix built at line 303,                  *)
(*   "KEYS_MISSING"     for the literal returned at line 145.              *)
(* No literal is a prefix of another one in the source, so prefix tests    *)
(* on tokens agree with str.startswith on the literals.                    *)
(***************************************************************************)
EXTENDS Integers, Sequences, FiniteSets, TLC

(***************************************************************************)
(* Bounds of the model.                                                    *)
(***************************************************************************)
\* audio lengths are multiples of a quarter of a chunk, up to this many
MaxQuarters == 9
\* same, for audio whose one-minute chunk file exceeds the size threshold
MaxQuartersHiFi == 4
\* nesting depth of transcribe_large_audio_baidu at which the interpreter
\* raises RecursionError
MaxDepth == 3

\* the conversion threads a behaviour of the Qt window starts at most
MaxThreads == 3

\* the conversions the quota allows when the window opens
MaxQuota == 2

(***************************************************************************)
(* Constants of the program.                                               *)
(***************************************************************************)
chunk_length_ms == 60000
SizeLimit == 10 * 1024 * 1024

(***************************************************************************)
(* Strings.                                                                *)
(***************************************************************************)
StoppedText == <<"STOPPED_BY_USER">>
BaiduErrorPrefix == <<"BAIDU_ERROR">>
BaiduErrorText == <<"BAIDU_ERROR", "err_msg">>
BaiduExceptionText == <<"BAIDU_EXCEPTION", "e">>
LargeErrorText == <<"LARGE_ERROR", "e">>
KeysMissingText == <<"KEYS_MISSING">>

\* texts the recognition service may return for one request, none of them
\* one of the strings above
Texts == {<<"a">>, <<"b">>}

\* str.startswith
StartsWith(s, p) == Len(s) >= Len(p) /\ SubSeq(s, 1, Len(p)) = p

\* "\n".join(list)
RECURSIVE Join(_)
Join(list) ==
    IF list = <<>> THEN <<>>
    ELSE IF Len(list) = 1 THEN list[1]
    ELSE list[1] \o <<"\n">> \o Join(Tail(list))

(***************************************************************************)
(* Audio.  A WAV file is known by its duration (ms) and its byte rate      *)
(* (bytes per second of PCM data), which slicing and export keep.          *)
(***************************************************************************)
\* size in bytes of the WAV file that holds len ms of audio
WavSize(len, rate) ==
    44 + (len \div 1000) * rate + ((len % 1000) * rate) \div 1000

\* len(audio) // chunk_length_ms + 1
ChunksNumber(len) == len \div chunk_length_ms + 1

Min(a, b) == IF a < b THEN a ELSE b
\* a slice that is not clipped to the length of the audio
ChunkLenUnclipped(len, i) == chunk_length_ms

\* len(audio[i*chunk_length_ms:(i+1)*chunk_length_ms])
ChunkLen(len, i) ==
    LET lo == Min(i * chunk_length_ms, len)
        hi == Min((i + 1) * chunk_length_ms, len)
    IN  hi - lo

\* the audio files given to the program: 22.05 kHz stereo 16 bit
\* (88200 bytes/s) and 44.1 kHz stereo 16 bit (176400 bytes/s)
AudioInputs ==
    {[len |-> k * (chunk_length_ms \div 4), rate |-> 88200] : k \in 0..MaxQuarters}
    \cup
    {[len |-> k * (chunk_length_ms \div 4), rate |-> 176400] : k \in 1..MaxQuartersHiFi}

\* the file of the runs whose progress is checked: two minutes of
\* 22.05 kHz stereo audio, three chunks, none of them over the size limit
FairAudioInputs == {[len |-> 2 * chunk_length_ms, rate |-> 88200]}

VARIABLES
    paused,          \* TaskController._paused
    stop_requested,  \* TaskController._stop_requested
    lock,            \* holder of TaskController._lock: "free", "ui", "worker"
    uiPc,            \* controlling thread: "idle", "acquire", "cs"
    uiOp,            \* the TaskController method the controlling thread is in
    uiRet,           \* value returned by its last is_paused / is_stop_requested
    audio,           \* the file given to transcribe_audio_baidu by the caller
    keysOk,          \* BAIDU_APP_ID, BAIDU_API_KEY, BAIDU_SECRET_KEY all set
    speech,          \* the texts the service can recognise in this audio
    task_controller,    \* the caller passes a TaskController (not None)
    progress_callback,  \* the caller passes a progress callback (not None)
    pc,              \* worker: position in the code
    stack,           \* worker: frames of transcribe_large_audio_baidu
    file,            \* worker: argument of the running transcribe_audio_baidu
    ret,             \* worker: value returned by the last call of line 273
    result,          \* value returned to the caller of transcribe_audio_baidu
    exit,            \* line of the return statement that produced result
    progress,        \* the calls made to progress_callback, in order
    log,             \* what the worker has done so far, in order: progress
                     \* reports, calls of line 273, recognition requests and
                     \* the way each of them ended
    slept,           \* wait_if_paused has slept since it was called
    stopSeen,        \* a stop check of the loop has returned True
    tempfiles,       \* the temporary chunk files that exist, each known by
                     \* the depth of the frame that created it (line 263)
    stopInLoop,      \* stop() ran while the outermost loop was running, and
                     \* reset() has not run since
    stopInFlight,    \* stop() ran while the recognition request of a chunk
                     \* was in flight, and reset() has not run since
    pauseInFlight,   \* pause() ran while the recognition request of a chunk
                     \* was in flight; resume() and reset() have not run since
    resetBeforeRun,  \* reset() ran after a stop() before the worker made its
                     \* call, and neither pause() nor stop() has run since
    pollGap,         \* what has happened between the last two polls of
                     \* wait_if_paused: "resumed" (resume() since the last
                     \* poll, which found paused true), "missed" (and pause()
                     \* after it); then whether the next poll let the worker
                     \* go ("seen") or not ("unseen"); "none" otherwise
    \* the Qt window (mp3_to_text_qt.py)
    convert_enabled, \* convert_button.isEnabled()
    pause_enabled,   \* pause_resume_button.isEnabled()
    stop_enabled,    \* stop_button.isEnabled()
    is_converting,   \* MP3ToTextGUI.is_converting
    gui_paused,      \* MP3ToTextGUI.is_paused
    quota_left,      \* the conversions the remaining quota allows
    events,          \* the signals of worker threads the event loop of the
                     \* window has not handled yet, oldest first
    dialog,          \* what the last on_conversion_finished did with the
                     \* completion dialog: "none", "shown", "suppressed"
    stopAsked,       \* stop_conversion requested a stop since the last start
    threads          \* where each conversion thread started so far is

vars == <<paused, stop_requested, lock, uiPc, uiOp, uiRet, audio, keysOk,
          speech, task_controller, progress_callback, pc, stack, file, ret, result, exit, progress, log, slept,
          stopSeen, tempfiles,
          stopInLoop, stopInFlight, pauseInFlight, resetBeforeRun, pollGap,
          convert_enabled, pause_enabled, stop_enabled,
          is_converting, gui_paused, quota_left, events, threads,
          dialog, stopAsked>>

ctlVars == <<paused, stop_requested>>
uiVars == <<uiPc, uiOp, uiRet>>
workerVars == <<pc, stack, file, ret, result, exit, progress, log, slept,
                stopSeen, tempfiles>>
inputVars == <<audio, keysOk, speech, task_controller, progress_callback>>
historyVars == <<stopInFlight, pauseInFlight, resetBeforeRun>>
buttonVars == <<convert_enabled, pause_enabled, stop_enabled>>
dialogVars == <<dialog, stopAsked>>
guiVars == <<convert_enabled, pause_enabled, stop_enabled, is_converting,
             gui_paused, quota_left, events, threads, dialog, stopAsked>>

Ops == {"pause", "resume", "stop", "reset", "is_paused", "is_stop_requested"}

\* MP3ToTextGUI.__init__: no conversion yet, the buttons as created
GuiInit ==
    /\ convert_enabled = TRUE
    /\ pause_enabled = FALSE
    /\ stop_enabled = FALSE
    /\ is_converting = FALSE
    /\ gui_paused = FALSE
    /\ quota_left = MaxQuota
    /\ events = <<>>
    /\ threads = <<>>
    /\ dialog = "none"
    /\ stopAsked = FALSE

\* TaskController.__init__, and the worker about to call transcribe_audio_baidu
\* on one of the given files
InitCalling(files, keys, texts, controllers, callbacks) ==
    /\ paused = FALSE
    /\ stop_requested = FALSE
    /\ lock = "free"
    /\ uiPc = "idle"
    /\ uiOp = "none"
    /\ uiRet = "none"
    /\ audio \in files
    /\ keysOk \in keys
    /\ speech = texts
    /\ task_controller \in controllers
    /\ progress_callback \in callbacks
    /\ pc = "transcribe_audio_baidu"
    /\ stack = <<>>
    /\ file = audio
    /\ ret = <<>>
    /\ result = <<>>
    /\ exit = 0
    /\ progress = <<>>
    /\ log = <<>>
    /\ slept = FALSE
    /\ stopSeen = FALSE
    /\ tempfiles = {}
    /\ stopInLoop = FALSE
    /\ stopInFlight = FALSE
    /\ pauseInFlight = FALSE
    /\ resetBeforeRun = FALSE
    /\ pollGap = "none"
    /\ GuiInit

\* the same, for a caller that passes a controller and a progress callback,
\* as the Qt window does
InitSaying(files, keys, texts) ==
    InitCalling(files, keys, texts, {TRUE}, {TRUE})

\* the same, for audio in which the service recognises the texts of Texts
InitWith(files, keys) == InitSaying(files, keys, Texts)

Init == InitWith(AudioInputs, BOOLEAN)

\* the worker has not made its call of transcribe_audio_baidu yet
RunNotStarted == pc = "transcribe_audio_baidu" /\ stack = <<>> /\ log = <<>>

\* the outermost transcribe_large_audio_baidu is inside its for loop
LoopRunning == stack /= <<>>

(***************************************************************************)
(* The controlling thread.                                                 *)
(***************************************************************************)
\* the worker is in wait_if_paused between two polls: its last poll found
\* paused true and it has not begun the next one
BetweenPolls == pc = "sleep" \/ (pc = "wait" /\ slept)

\* the controlling thread calls a method of the controller
UiCall(op) ==
    /\ uiPc = "idle"
    /\ UNCHANGED pollGap
    /\ UNCHANGED <<historyVars, guiVars>>
    /\ uiPc' = "acquire"
    /\ uiOp' = op
    /\ uiRet' = "none"
    /\ UNCHANGED <<ctlVars, lock, workerVars, inputVars, stopInLoop>>

\* "with self._lock:" entered without looking at the holder
UiAcquireUnlocked ==
    /\ uiPc = "acquire"
    /\ UNCHANGED pollGap
    /\ UNCHANGED <<historyVars, guiVars>>
    /\ lock' = "ui"
    /\ uiPc' = "cs"
    /\ UNCHANGED <<ctlVars, uiOp, uiRet, workerVars, inputVars, stopInLoop>>

\* "with self._lock:" entered
UiAcquire ==
    /\ uiPc = "acquire"
    /\ UNCHANGED pollGap
    /\ UNCHANGED <<historyVars, guiVars>>
    /\ lock = "free"
    /\ lock' = "ui"
    /\ uiPc' = "cs"
    /\ UNCHANGED <<ctlVars, uiOp, uiRet, workerVars, inputVars, stopInLoop>>

\* the end of a "with self._lock:" block of the controlling thread
UiLeave(value) ==
    /\ UNCHANGED guiVars
    /\ lock' = "free"
    /\ uiPc' = "idle"
    /\ uiOp' = "none"
    /\ uiRet' = value
    /\ UNCHANGED <<workerVars, inputVars>>

pause ==
    /\ uiPc = "cs" /\ uiOp = "pause"
    /\ pollGap' = IF pollGap = "resumed" /\ BetweenPolls THEN "missed" ELSE "none"
    /\ paused' = TRUE
    /\ pauseInFlight' = (pauseInFlight \/ (LoopRunning /\ pc = "asr"))
    /\ resetBeforeRun' = FALSE
    /\ UNCHANGED <<stop_requested, stopInLoop, stopInFlight>>
    /\ UiLeave("none")

\* resume() that also clears the stop request
resumeClearsStop ==
    /\ uiPc = "cs" /\ uiOp = "resume"
    /\ pollGap' = IF paused /\ BetweenPolls THEN "resumed" ELSE "none"
    /\ paused' = FALSE
    /\ stop_requested' = FALSE
    /\ pauseInFlight' = FALSE
    /\ UNCHANGED <<stopInLoop, stopInFlight, resetBeforeRun>>
    /\ UiLeave("none")
\* resume() that wakes the worker when it sleeps in wait_if_paused
resumeWakesWorker ==
    /\ uiPc = "cs" /\ uiOp = "resume"
    /\ paused' = FALSE
    /\ pauseInFlight' = FALSE
    /\ pollGap' = IF paused /\ BetweenPolls THEN "resumed" ELSE "none"
    /\ lock' = "free"
    /\ uiPc' = "idle"
    /\ uiOp' = "none"
    /\ uiRet' = "none"
    /\ IF pc = "sleep"
       THEN /\ pc' = "check2"
            /\ stack' = [stack EXCEPT ![Len(stack)].checks =
                                          Append(@, "wait_if_paused")]
       ELSE UNCHANGED <<pc, stack>>
    /\ UNCHANGED <<stop_requested, stopInLoop, stopInFlight, resetBeforeRun,
                   file, ret, result, exit, progress, log, slept, stopSeen,
                   tempfiles, inputVars, guiVars>>

resume ==
    /\ uiPc = "cs" /\ uiOp = "resume"
    /\ pollGap' = IF paused /\ BetweenPolls THEN "resumed" ELSE "none"
    /\ paused' = FALSE
    /\ pauseInFlight' = FALSE
    /\ UNCHANGED <<stop_requested, stopInLoop, stopInFlight, resetBeforeRun>>
    /\ UiLeave("none")
\* stop() that also takes the pause away
stopClearsPaused ==
    /\ uiPc = "cs" /\ uiOp = "stop"
    /\ UNCHANGED pollGap
    /\ stop_requested' = TRUE
    /\ paused' = FALSE
    /\ stopInLoop' = (stopInLoop \/ LoopRunning)
    /\ stopInFlight' = (stopInFlight \/ (LoopRunning /\ pc = "asr"))
    /\ resetBeforeRun' = FALSE
    /\ UNCHANGED pauseInFlight
    /\ UiLeave("none")

stop ==
    /\ uiPc = "cs" /\ uiOp = "stop"
    /\ UNCHANGED pollGap
    /\ stop_requested' = TRUE
    /\ stopInLoop' = (stopInLoop \/ LoopRunning)
    /\ stopInFlight' = (stopInFlight \/ (LoopRunning /\ pc = "asr"))
    /\ resetBeforeRun' = FALSE
    /\ UNCHANGED <<paused, pauseInFlight>>
    /\ UiLeave("none")

is_paused ==
    /\ uiPc = "cs" /\ uiOp = "is_paused"
    /\ UNCHANGED pollGap
    /\ UNCHANGED historyVars
    /\ UNCHANGED <<ctlVars, stopInLoop>>
    /\ UiLeave(IF paused THEN "True" ELSE "False")

is_stop_requested ==
    /\ uiPc = "cs" /\ uiOp = "is_stop_requested"
    /\ UNCHANGED pollGap
    /\ UNCHANGED historyVars
    /\ UNCHANGED <<ctlVars, stopInLoop>>
    /\ UiLeave(IF stop_requested THEN "True" ELSE "False")

\* reset() that clears the pause only
resetKeepsStop ==
    /\ uiPc = "cs" /\ uiOp = "reset"
    /\ pollGap' = "none"
    /\ paused' = FALSE
    /\ UNCHANGED <<stop_requested, stopInLoop, stopInFlight>>
    /\ pauseInFlight' = FALSE
    /\ resetBeforeRun' = (resetBeforeRun \/ (stop_requested /\ RunNotStarted))
    /\ UiLeave("none")

reset ==
    /\ uiPc = "cs" /\ uiOp = "reset"
    /\ pollGap' = "none"
    /\ paused' = FALSE
    /\ stop_requested' = FALSE
    /\ stopInLoop' = FALSE
    /\ stopInFlight' = FALSE
    /\ pauseInFlight' = FALSE
    /\ resetBeforeRun' = (resetBeforeRun \/ (stop_requested /\ RunNotStarted))
    /\ UiLeave("none")

(***************************************************************************)
(* The worker thread.                                                      *)
(***************************************************************************)
Top == stack[Len(stack)]
Pop == SubSeq(stack, 1, Len(stack) - 1)
SetTop(f) == [stack EXCEPT ![Len(stack)] = f]

\* a return statement of the worker: the value goes to the caller of
\* transcribe_audio_baidu, which is line 273 of the frame on top of stk, or
\* the caller of the whole transcription when no frame is left
ReturnTo(stk, value, line) ==
    /\ stack' = stk
    /\ IF stk = <<>>
       THEN /\ pc' = "done"
            /\ result' = value
            /\ exit' = line
            /\ UNCHANGED ret
       ELSE /\ pc' = "chunk_result"
            /\ ret' = value
            /\ UNCHANGED <<result, exit>>

\* the log with one more entry: what was done, by the frame at which depth
\* (0: outside the loop), for which chunk index, with which text
Logged(what, index, text) ==
    Append(log, [ev |-> what, d |-> Len(stack), i |-> index, t |-> text])

\* the index of the chunk the innermost frame is at (0 outside the loop)
CurrentIndex == IF stack = <<>> THEN 0 ELSE Top.i
\* transcribe_audio_baidu with half the size limit at line 161
transcribe_audio_baiduHalfLimit ==
    /\ pc = "transcribe_audio_baidu"
    /\ UNCHANGED pollGap
    /\ UNCHANGED <<historyVars, guiVars>>
    /\ IF ~keysOk
       THEN ReturnTo(stack, KeysMissingText, 145)
       ELSE IF WavSize(file.len, file.rate) > SizeLimit \div 2
       THEN IF Len(stack) >= MaxDepth
            THEN ReturnTo(Pop, LargeErrorText, 303)
            ELSE /\ pc' = "load"
                 /\ UNCHANGED <<stack, ret, result, exit>>
       ELSE /\ pc' = "asr"
            /\ UNCHANGED <<stack, ret, result, exit>>
    /\ log' = IF keysOk /\ WavSize(file.len, file.rate) <= SizeLimit \div 2
              THEN Logged("asr", CurrentIndex, <<>>)
              ELSE log
    /\ tempfiles' = IF /\ keysOk
                       /\ WavSize(file.len, file.rate) > SizeLimit \div 2
                       /\ Len(stack) >= MaxDepth
                    THEN tempfiles \ {Len(stack)}
                    ELSE tempfiles
    /\ UNCHANGED <<ctlVars, lock, uiVars, inputVars, file, progress, slept,
                   stopSeen, stopInLoop>>

\* lines 142-164: keys check, file size check
transcribe_audio_baidu ==
    /\ pc = "transcribe_audio_baidu"
    /\ UNCHANGED pollGap
    /\ UNCHANGED <<historyVars, guiVars>>
    /\ IF ~keysOk
       THEN ReturnTo(stack, KeysMissingText, 145)
       ELSE IF WavSize(file.len, file.rate) > SizeLimit
       THEN IF Len(stack) >= MaxDepth
            \* RecursionError, caught at line 301 of the innermost frame
            THEN ReturnTo(Pop, LargeErrorText, 303)
            ELSE /\ pc' = "load"
                 /\ UNCHANGED <<stack, ret, result, exit>>
       ELSE /\ pc' = "asr"
            /\ UNCHANGED <<stack, ret, result, exit>>
    /\ log' = IF keysOk /\ WavSize(file.len, file.rate) <= SizeLimit
              THEN Logged("asr", CurrentIndex, <<>>)
              ELSE log
    \* the RecursionError comes out of the call of line 273 of the innermost
    \* frame, whose finally (lines 286-290) removes its chunk file
    /\ tempfiles' = IF /\ keysOk
                       /\ WavSize(file.len, file.rate) > SizeLimit
                       /\ Len(stack) >= MaxDepth
                    THEN tempfiles \ {Len(stack)}
                    ELSE tempfiles
    /\ UNCHANGED <<ctlVars, lock, uiVars, inputVars, file, progress, slept,
                   stopSeen, stopInLoop>>

\* a recognition request that does not return while the controller is paused
asrHeldWhilePaused ==
    /\ pc = "asr"
    /\ UNCHANGED <<tempfiles, pollGap>>
    /\ UNCHANGED <<historyVars, guiVars>>
    /\ ~paused
    /\ \/ \E text \in speech :
             /\ ReturnTo(stack, text, 201)
             /\ log' = Logged("ok", CurrentIndex, text)
       \/ /\ ReturnTo(stack, BaiduErrorText, 205)
          /\ log' = Logged("err", CurrentIndex, BaiduErrorText)
       \/ /\ ReturnTo(stack, BaiduExceptionText, 208)
          /\ log' = Logged("exc", CurrentIndex, BaiduExceptionText)
    /\ UNCHANGED <<ctlVars, lock, uiVars, inputVars, file, progress, slept,
                   stopSeen, stopInLoop>>

\* a recognition request that a stop request cuts short
asrInterruptedByStop ==
    /\ pc = "asr"
    /\ UNCHANGED <<tempfiles, pollGap>>
    /\ UNCHANGED <<historyVars, guiVars>>
    /\ IF stop_requested
       THEN /\ ReturnTo(stack, StoppedText, 243)
            /\ UNCHANGED log
       ELSE \/ \E text \in speech :
                  /\ ReturnTo(stack, text, 201)
                  /\ log' = Logged("ok", CurrentIndex, text)
            \/ /\ ReturnTo(stack, BaiduErrorText, 205)
               /\ log' = Logged("err", CurrentIndex, BaiduErrorText)
            \/ /\ ReturnTo(stack, BaiduExceptionText, 208)
               /\ log' = Logged("exc", CurrentIndex, BaiduExceptionText)
    /\ UNCHANGED <<ctlVars, lock, uiVars, inputVars, file, progress, slept,
                   stopSeen, stopInLoop>>

\* lines 188-208: client.asr and the three ways it ends
asr ==
    /\ pc = "asr"
    /\ UNCHANGED <<tempfiles, pollGap>>
    /\ UNCHANGED <<historyVars, guiVars>>
    /\ \/ \E text \in speech :
             /\ ReturnTo(stack, text, 201)
             /\ log' = Logged("ok", CurrentIndex, text)
       \/ /\ ReturnTo(stack, BaiduErrorText, 205)
          /\ log' = Logged("err", CurrentIndex, BaiduErrorText)
       \/ /\ ReturnTo(stack, BaiduExceptionText, 208)
          /\ log' = Logged("exc", CurrentIndex, BaiduExceptionText)
    /\ UNCHANGED <<ctlVars, lock, uiVars, inputVars, file, progress, slept,
                   stopSeen, stopInLoop>>

\* lines 221-235: AudioSegment.from_wav, chunks_number, transcription = []
load ==
    /\ pc = "load"
    /\ UNCHANGED <<tempfiles, pollGap>>
    /\ UNCHANGED <<historyVars, guiVars, log>>
    /\ \/ /\ stack' = Append(stack, [len |-> file.len, rate |-> file.rate,
                                     chunks_number |-> ChunksNumber(file.len),
                                     i |-> 0, transcription |-> <<>>,
                                     checks |-> <<>>])
          /\ pc' = "check1"
          /\ UNCHANGED <<ret, result, exit>>
       \/ ReturnTo(stack, LargeErrorText, 303)
    /\ UNCHANGED <<ctlVars, lock, uiVars, inputVars, file, progress, slept,
                   stopSeen, stopInLoop>>

\* the worker enters "with self._lock:" of is_stop_requested (lines 240, 248)
\* or of wait_if_paused (line 62)
WorkerAcquire ==
    /\ pc \in {"check1", "wait", "check2"}
    /\ task_controller
    /\ UNCHANGED <<tempfiles, pollGap>>
    /\ UNCHANGED <<historyVars, guiVars, log>>
    /\ lock = "free"
    /\ lock' = "worker"
    /\ pc' = CASE pc = "check1" -> "check1_cs"
               [] pc = "wait" -> "wait_cs"
               [] pc = "check2" -> "check2_cs"
    /\ UNCHANGED <<ctlVars, uiVars, inputVars, stack, file, ret, result, exit,
                   progress, slept, stopSeen, stopInLoop>>

\* a first stop check that is not followed by wait_if_paused
check1SkipsWait ==
    /\ pc = "check1_cs"
    /\ UNCHANGED <<tempfiles, pollGap>>
    /\ UNCHANGED <<historyVars, guiVars, log>>
    /\ lock' = "free"
    /\ IF stop_requested
       THEN /\ stopSeen' = TRUE
            /\ ReturnTo(Pop, StoppedText, 243)
            /\ UNCHANGED slept
       ELSE /\ stack' = SetTop([Top EXCEPT !.checks = Append(@, "stop_check")])
            /\ pc' = "check2"
            /\ slept' = FALSE
            /\ UNCHANGED <<ret, result, exit, stopSeen>>
    /\ UNCHANGED <<ctlVars, uiVars, inputVars, file, progress, stopInLoop>>

\* lines 240-243: the first stop check of an iteration
check1 ==
    /\ pc = "check1_cs"
    /\ UNCHANGED <<tempfiles, pollGap>>
    /\ UNCHANGED <<historyVars, guiVars, log>>
    /\ lock' = "free"
    /\ IF stop_requested
       THEN /\ stopSeen' = TRUE
            /\ ReturnTo(Pop, StoppedText, 243)
            /\ UNCHANGED slept
       ELSE /\ stack' = SetTop([Top EXCEPT !.checks = Append(@, "stop_check")])
            /\ pc' = "wait"
            /\ slept' = FALSE
            /\ UNCHANGED <<ret, result, exit, stopSeen>>
    /\ UNCHANGED <<ctlVars, uiVars, inputVars, file, progress, stopInLoop>>

\* wait_if_paused that returns at its first poll whatever the flags are
wait_if_pausedNoWait ==
    /\ pc = "wait_cs"
    /\ UNCHANGED tempfiles
    /\ UNCHANGED <<historyVars, guiVars, log>>
    /\ lock' = "free"
    /\ stack' = SetTop([Top EXCEPT !.checks = Append(@, "wait_if_paused")])
    /\ pc' = "check2"
    /\ UNCHANGED <<ctlVars, uiVars, inputVars, file, ret, result, exit, progress,
                   slept, stopSeen, stopInLoop>>
    /\ pollGap' = IF pollGap # "missed" THEN "none"
                  ELSE IF pc' = "check2" THEN "seen" ELSE "unseen"

\* wait_if_paused that sleeps inside its "with self._lock:" block and never
\* leaves it while it waits
wait_if_pausedHoldsLock ==
    /\ pc = "wait_cs"
    /\ UNCHANGED tempfiles
    /\ UNCHANGED <<historyVars, guiVars, log>>
    /\ IF ~paused \/ stop_requested
       THEN /\ stack' = SetTop([Top EXCEPT !.checks = Append(@, "wait_if_paused")])
            /\ pc' = "check2"
            /\ lock' = "free"
            /\ UNCHANGED slept
       ELSE /\ slept' = TRUE
            /\ UNCHANGED <<stack, pc, lock>>
    /\ UNCHANGED <<ctlVars, uiVars, inputVars, file, ret, result, exit, progress,
                   stopSeen, stopInLoop>>
    /\ pollGap' = IF pollGap # "missed" THEN "none"
                  ELSE IF pc' = "check2" THEN "seen" ELSE "unseen"

\* wait_if_paused without the test of line 65
wait_if_pausedIgnoresStop ==
    /\ pc = "wait_cs"
    /\ UNCHANGED tempfiles
    /\ UNCHANGED <<historyVars, guiVars, log>>
    /\ lock' = "free"
    /\ IF ~paused
       THEN /\ stack' = SetTop([Top EXCEPT !.checks = Append(@, "wait_if_paused")])
            /\ pc' = "check2"
       ELSE /\ pc' = "sleep"
            /\ UNCHANGED stack
    /\ UNCHANGED <<ctlVars, uiVars, inputVars, file, ret, result, exit, progress,
                   slept, stopSeen, stopInLoop>>
    /\ pollGap' = IF pollGap # "missed" THEN "none"
                  ELSE IF pc' = "check2" THEN "seen" ELSE "unseen"

\* wait_if_paused without the test of line 63
wait_if_pausedIgnoresResume ==
    /\ pc = "wait_cs"
    /\ UNCHANGED tempfiles
    /\ UNCHANGED <<historyVars, guiVars, log>>
    /\ lock' = "free"
    /\ IF stop_requested
       THEN /\ stack' = SetTop([Top EXCEPT !.checks = Append(@, "wait_if_paused")])
            /\ pc' = "check2"
       ELSE /\ pc' = "sleep"
            /\ UNCHANGED stack
    /\ UNCHANGED <<ctlVars, uiVars, inputVars, file, ret, result, exit, progress,
                   slept, stopSeen, stopInLoop>>
    /\ pollGap' = IF pollGap # "missed" THEN "none"
                  ELSE IF pc' = "check2" THEN "seen" ELSE "unseen"

\* lines 62-66: one poll of wait_if_paused
wait_if_paused ==
    /\ pc = "wait_cs"
    /\ UNCHANGED tempfiles
    /\ UNCHANGED <<historyVars, guiVars, log>>
    /\ lock' = "free"
    /\ IF ~paused \/ stop_requested
       THEN /\ stack' = SetTop([Top EXCEPT !.checks = Append(@, "wait_if_paused")])
            /\ pc' = "check2"
       ELSE /\ pc' = "sleep"
            /\ UNCHANGED stack
    /\ UNCHANGED <<ctlVars, uiVars, inputVars, file, ret, result, exit, progress,
                   slept, stopSeen, stopInLoop>>
    /\ pollGap' = IF pollGap # "missed" THEN "none"
                  ELSE IF pc' = "check2" THEN "seen" ELSE "unseen"

\* a sleep after which wait_if_paused gives up and returns
sleepGivesUp ==
    /\ pc = "sleep"
    /\ UNCHANGED <<tempfiles, pollGap>>
    /\ UNCHANGED <<historyVars, guiVars, log>>
    /\ stack' = SetTop([Top EXCEPT !.checks = Append(@, "wait_if_paused")])
    /\ pc' = "check2"
    /\ slept' = TRUE
    /\ UNCHANGED <<ctlVars, lock, uiVars, inputVars, file, ret, result,
                   exit, progress, stopSeen, stopInLoop>>

\* line 67: time.sleep(0.1)
sleep ==
    /\ pc = "sleep"
    /\ UNCHANGED <<tempfiles, pollGap>>
    /\ UNCHANGED <<historyVars, guiVars, log>>
    /\ pc' = "wait"
    /\ slept' = TRUE
    /\ UNCHANGED <<ctlVars, lock, uiVars, inputVars, stack, file, ret, result,
                   exit, progress, stopSeen, stopInLoop>>

\* a second stop check whose result is not acted upon (no return at 250)
check2NoReturn ==
    /\ pc = "check2_cs"
    /\ UNCHANGED <<tempfiles, pollGap>>
    /\ UNCHANGED <<historyVars, guiVars, log>>
    /\ lock' = "free"
    /\ stopSeen' = (stopSeen \/ stop_requested)
    /\ stack' = SetTop([Top EXCEPT !.checks = Append(@, "stop_check")])
    /\ pc' = "progress"
    /\ UNCHANGED <<ret, result, exit>>
    /\ UNCHANGED <<ctlVars, uiVars, inputVars, file, progress, slept, stopInLoop>>
\* a second stop check that takes the stop request away when it has seen it
check2ConsumesStop ==
    /\ pc = "check2_cs"
    /\ UNCHANGED <<tempfiles, pollGap>>
    /\ UNCHANGED <<historyVars, guiVars, log>>
    /\ lock' = "free"
    /\ IF stop_requested
       THEN /\ stopSeen' = TRUE
            /\ stop_requested' = FALSE
            /\ ReturnTo(Pop, StoppedText, 250)
       ELSE /\ stack' = SetTop([Top EXCEPT !.checks = Append(@, "stop_check")])
            /\ pc' = "progress"
            /\ UNCHANGED <<ret, result, exit, stopSeen, stop_requested>>
    /\ UNCHANGED <<paused, uiVars, inputVars, file, progress, slept, stopInLoop>>

\* lines 248-250: the second stop check of an iteration
check2 ==
    /\ pc = "check2_cs"
    /\ UNCHANGED <<tempfiles, pollGap>>
    /\ UNCHANGED <<historyVars, guiVars, log>>
    /\ lock' = "free"
    /\ IF stop_requested
       THEN /\ stopSeen' = TRUE
            /\ ReturnTo(Pop, StoppedText, 250)
       ELSE /\ stack' = SetTop([Top EXCEPT !.checks = Append(@, "stop_check")])
            /\ pc' = "progress"
            /\ UNCHANGED <<ret, result, exit, stopSeen>>
    /\ UNCHANGED <<ctlVars, uiVars, inputVars, file, progress, slept, stopInLoop>>

\* a progress report made whether or not a callback was passed
report_progressAlways ==
    /\ pc = "progress"
    /\ UNCHANGED <<tempfiles, pollGap>>
    /\ UNCHANGED <<historyVars, guiVars>>
    /\ progress' = Append(progress, <<Top.i, Top.chunks_number>>)
    /\ log' = Logged("progress", Top.i, <<>>)
    /\ pc' = "export"
    /\ UNCHANGED <<ctlVars, lock, uiVars, inputVars, stack, file, ret, result,
                   exit, slept, stopSeen, stopInLoop>>

\* lines 255-257: if progress_callback: progress_callback(i, chunks_number)
report_progress ==
    /\ pc = "progress"
    /\ UNCHANGED <<tempfiles, pollGap>>
    /\ UNCHANGED <<historyVars, guiVars>>
    /\ IF progress_callback
       THEN /\ progress' = Append(progress, <<Top.i, Top.chunks_number>>)
            /\ log' = Logged("progress", Top.i, <<>>)
       ELSE UNCHANGED <<progress, log>>
    /\ pc' = "export"
    /\ UNCHANGED <<ctlVars, lock, uiVars, inputVars, stack, file, ret, result,
                   exit, slept, stopSeen, stopInLoop>>
\* an export whose exception ends the loop as if it were exhausted: the
\* final report is made and the aggregate so far is returned
exportFailureReturnsAggregate ==
    /\ pc = "export"
    /\ UNCHANGED pollGap
    /\ UNCHANGED <<historyVars, guiVars>>
    /\ \/ /\ file' = [len |-> ChunkLen(Top.len, Top.i), rate |-> Top.rate]
          /\ tempfiles' = tempfiles \cup {Len(stack)}
          /\ pc' = "transcribe_audio_baidu"
          /\ log' = Logged("submit", Top.i, <<>>)
          /\ UNCHANGED <<stack, ret, result, exit, progress>>
       \/ /\ ReturnTo(Pop, Join(Top.transcription), 299)
          /\ progress' = Append(progress, <<Top.chunks_number, Top.chunks_number>>)
          /\ UNCHANGED <<file, log, tempfiles>>
    /\ UNCHANGED <<ctlVars, lock, uiVars, inputVars, slept, stopSeen,
                   stopInLoop>>

\* lines 259-273: slice, export to a temporary file, call
\* transcribe_audio_baidu on it; or an exception of mkstemp or of the export
\* (the finally of lines 286-290 then removes the file if it was created),
\* caught at 301
export ==
    /\ pc = "export"
    /\ UNCHANGED pollGap
    /\ UNCHANGED <<historyVars, guiVars>>
    /\ \/ /\ file' = [len |-> ChunkLen(Top.len, Top.i), rate |-> Top.rate]
          /\ tempfiles' = tempfiles \cup {Len(stack)}
          /\ pc' = "transcribe_audio_baidu"
          /\ log' = Logged("submit", Top.i, <<>>)
          /\ UNCHANGED <<stack, ret, result, exit>>
       \/ /\ ReturnTo(Pop, LargeErrorText, 303)
          /\ UNCHANGED <<file, log, tempfiles>>
    /\ UNCHANGED <<ctlVars, lock, uiVars, inputVars, progress, slept, stopSeen,
                   stopInLoop>>

\* chunk_result without the test of lines 276-277: the sentinel of a nested
\* loop is treated as the text of the chunk
chunk_resultKeepsSentinel ==
    /\ pc = "chunk_result"
    /\ UNCHANGED pollGap
    /\ tempfiles' = tempfiles \ {Len(stack)}
    /\ UNCHANGED <<historyVars, guiVars, log>>
    /\ LET tr == IF ~StartsWith(ret, BaiduErrorPrefix)
                 THEN Append(Top.transcription, ret)
                 ELSE Top.transcription
       IN  /\ stack' = SetTop([Top EXCEPT !.transcription = tr,
                                          !.i = @ + 1,
                                          !.checks = <<>>])
           /\ pc' = IF Top.i + 1 < Top.chunks_number THEN "check1" ELSE "finish"
           /\ UNCHANGED <<ret, result, exit>>
    /\ UNCHANGED <<ctlVars, lock, uiVars, inputVars, file, progress, slept,
                   stopSeen, stopInLoop>>

\* chunk_result that goes back to the same chunk when the controller is paused
chunk_resultRepeatsWhenPaused ==
    /\ pc = "chunk_result"
    /\ UNCHANGED pollGap
    /\ tempfiles' = tempfiles \ {Len(stack)}
    /\ UNCHANGED <<historyVars, guiVars, log>>
    /\ IF ret = StoppedText
       THEN ReturnTo(Pop, ret, 277)
       ELSE LET tr == IF ~StartsWith(ret, BaiduErrorPrefix)
                      THEN Append(Top.transcription, ret)
                      ELSE Top.transcription
                next == IF paused THEN Top.i ELSE Top.i + 1
            IN  /\ stack' = SetTop([Top EXCEPT !.transcription = tr,
                                               !.i = next,
                                               !.checks = <<>>])
                /\ pc' = IF next < Top.chunks_number THEN "check1" ELSE "finish"
                /\ UNCHANGED <<ret, result, exit>>
    /\ UNCHANGED <<ctlVars, lock, uiVars, inputVars, file, progress, slept,
                   stopSeen, stopInLoop>>

\* chunk_result that gives up the run when the recognition of a chunk failed
chunk_resultReturnsFailure ==
    /\ pc = "chunk_result"
    /\ UNCHANGED pollGap
    /\ tempfiles' = tempfiles \ {Len(stack)}
    /\ UNCHANGED <<historyVars, guiVars, log>>
    /\ IF ret = StoppedText \/ StartsWith(ret, BaiduErrorPrefix)
       THEN ReturnTo(Pop, ret, 277)
       ELSE /\ stack' = SetTop([Top EXCEPT !.transcription = Append(@, ret),
                                            !.i = @ + 1,
                                            !.checks = <<>>])
            /\ pc' = IF Top.i + 1 < Top.chunks_number THEN "check1" ELSE "finish"
            /\ UNCHANGED <<ret, result, exit>>
    /\ UNCHANGED <<ctlVars, lock, uiVars, inputVars, file, progress, slept,
                   stopSeen, stopInLoop>>

\* lines 275-290 and the step of the for loop
chunk_result ==
    /\ pc = "chunk_result"
    /\ UNCHANGED pollGap
    /\ tempfiles' = tempfiles \ {Len(stack)}
    /\ UNCHANGED <<historyVars, guiVars, log>>
    /\ IF ret = StoppedText
       THEN ReturnTo(Pop, ret, 277)
       ELSE LET tr == IF ~StartsWith(ret, BaiduErrorPrefix)
                      THEN Append(Top.transcription, ret)
                      ELSE Top.transcription
            IN  /\ stack' = SetTop([Top EXCEPT !.transcription = tr,
                                               !.i = @ + 1,
                                               !.checks = <<>>])
                /\ pc' = IF Top.i + 1 < Top.chunks_number THEN "check1" ELSE "finish"
                /\ UNCHANGED <<ret, result, exit>>
    /\ UNCHANGED <<ctlVars, lock, uiVars, inputVars, file, progress, slept,
                   stopSeen, stopInLoop>>

\* finish without the report of line 294
finishNoReport ==
    /\ pc = "finish"
    /\ UNCHANGED <<tempfiles, pollGap>>
    /\ UNCHANGED <<historyVars, guiVars>>
    /\ UNCHANGED <<progress, log>>
    /\ ReturnTo(Pop, Join(Top.transcription), 299)
    /\ UNCHANGED <<ctlVars, lock, uiVars, inputVars, file, slept, stopSeen,
                   stopInLoop>>

\* lines 292-299: the last progress report, the join, the return
finish ==
    /\ pc = "finish"
    /\ UNCHANGED <<tempfiles, pollGap>>
    /\ UNCHANGED <<historyVars, guiVars>>
    /\ IF progress_callback
       THEN /\ progress' = Append(progress,
                                  <<Top.chunks_number, Top.chunks_number>>)
            /\ log' = Logged("progress", Top.chunks_number, <<>>)
       ELSE UNCHANGED <<progress, log>>
    /\ ReturnTo(Pop, Join(Top.transcription), 299)
    /\ UNCHANGED <<ctlVars, lock, uiVars, inputVars, file, slept, stopSeen,
                   stopInLoop>>

(***************************************************************************)
(* The system.                                                             *)
(***************************************************************************)
UiCritical ==
    \/ pause \/ resume \/ stop \/ is_paused \/ is_stop_requested \/ reset

WorkerCritical == check1 \/ wait_if_paused \/ check2

WorkerStep ==
    \/ transcribe_audio_baidu \/ asr \/ load \/ sleep \/ report_progress
    \/ export \/ chunk_result \/ finish

\* a step of the controlling thread or of the worker; the Qt window of the
\* second part of the module is not involved
Next ==
    \/ \E op \in Ops : UiCall(op)
    \/ UiAcquire
    \/ UiCritical
    \/ WorkerAcquire
    \/ WorkerCritical
    \/ WorkerStep

Spec == Init /\ [][Next]_vars

\* lines 240, 246: with task_controller = None the tests "if
\* task_controller" fail and the iteration goes on at line 252
no_task_controller ==
    /\ pc = "check1"
    /\ ~task_controller
    /\ pc' = "progress"
    /\ UNCHANGED <<ctlVars, lock, uiVars, inputVars, stack, file, ret, result,
                   exit, progress, log, slept, stopSeen, tempfiles, stopInLoop,
                   historyVars, pollGap, guiVars>>

\* the callers of transcribe_audio: the Qt window passes a controller and a
\* callback, main (line 361) and the Tk window (mp3_to_text_gui.py line
\* 141) pass neither; a file of three chunks
CallInit == InitCalling(FairAudioInputs, {TRUE}, Texts, BOOLEAN, BOOLEAN)

CallNext == Next \/ no_task_controller

CallSpec == CallInit /\ [][CallNext]_vars

\* the scheduling of the two threads: a thread that waits for the lock gets
\* it when it is free often enough (the worker sleeps between polls without
\* the lock), a thread inside a "with self._lock:" block leaves it, the
\* worker goes on running and every recognition request returns; the
\* controlling thread is never obliged to call anything
Fairness ==
    /\ SF_vars(UiAcquire)
    /\ WF_vars(UiCritical)
    /\ SF_vars(WorkerAcquire)
    /\ WF_vars(WorkerCritical)
    /\ WF_vars(WorkerStep)

FairInit == InitWith(FairAudioInputs, {TRUE})

FairSpec == FairInit /\ [][Next]_vars /\ Fairness

\* the runs over a file of three chunks that are under the size limit
LoopSpec == FairInit /\ [][Next]_vars

\* the same runs over audio in which somebody may say the very words of
\* StoppedText, so that the service can return them as the text of a chunk
EchoInit == InitSaying(FairAudioInputs, {TRUE}, Texts \cup {StoppedText})

EchoSpec == EchoInit /\ [][Next]_vars

(***************************************************************************)
(* The Qt window (mp3_to_text_qt.py): its buttons, the conversion threads  *)
(* it starts and the signals they send back.  The handlers of the window   *)
(* run one at a time on the thread of the event loop, a signal emitted by  *)
(* a conversion thread is queued for that loop, and a method of the        *)
(* controller is one step.  A conversion thread is followed from check     *)
(* point to check point.                                                   *)
(***************************************************************************)
\* the state of the first part of the module, which the window leaves alone
loopVars == <<lock, uiPc, uiOp, uiRet, audio, keysOk, speech,
              task_controller, progress_callback, pc, stack,
              file, ret, result, exit, progress, log, slept, stopSeen,
              tempfiles, stopInLoop, stopInFlight, pauseInFlight,
              resetBeforeRun, pollGap>>

\* the conversion threads started so far, and the ones there can be
Threads == 1..Len(threads)
ThreadIds == 1..MaxThreads

\* a signal of a conversion thread, queued for the event loop
Emit(sig, arg) == events' = Append(events, [sig |-> sig, arg |-> arg])

\* on_status_update for the status emitted by start_conversion, lines 987-993
StatusStarted ==
    /\ convert_enabled' = FALSE
    /\ pause_enabled' = TRUE
    /\ stop_enabled' = TRUE
    /\ is_converting' = TRUE
    /\ gui_paused' = FALSE

\* start_conversion without the reset of line 734
start_conversionNoReset ==
    /\ convert_enabled
    /\ quota_left >= 1
    /\ Len(threads) < MaxThreads
    /\ StatusStarted
    /\ threads' = Append(threads, "started")
    /\ stopAsked' = FALSE
    /\ UNCHANGED <<ctlVars, quota_left, events, loopVars, dialog>>

\* start_conversion, lines 676-769, for a file that exists and fits in the
\* remaining quota: the convert button is clicked, the controller is reset
\* (line 734), the start status is handled at once (line 737) and a thread
\* is started (line 769), which has still to begin run_conversion
start_conversion ==
    /\ convert_enabled
    /\ quota_left >= 1
    /\ Len(threads) < MaxThreads
    /\ paused' = FALSE
    /\ stop_requested' = FALSE
    /\ StatusStarted
    /\ threads' = Append(threads, "started")
    /\ stopAsked' = FALSE
    /\ UNCHANGED <<quota_left, events, loopVars, dialog>>

\* toggle_pause_resume, lines 996-1042: the pause/resume button is clicked
toggle_pause_resume ==
    /\ pause_enabled
    /\ is_converting
    /\ paused' = ~gui_paused
    /\ gui_paused' = ~gui_paused
    /\ UNCHANGED <<stop_requested, buttonVars, is_converting, quota_left,
                   events, threads, loopVars,
                   dialogVars>>

\* stop_conversion, lines 1044-1059: the stop button is clicked
stop_conversion ==
    /\ stop_enabled
    /\ is_converting
    /\ stop_requested' = TRUE
    /\ pause_enabled' = FALSE
    /\ stopAsked' = TRUE
    /\ UNCHANGED <<paused, convert_enabled, stop_enabled, is_converting,
                   gui_paused, quota_left, events, threads, loopVars,
                   dialog>>

\* on_status_update without the reset of line 980
on_status_updateNoReset ==
    /\ events /= <<>>
    /\ Head(events).sig = "status_update"
    /\ events' = Tail(events)
    /\ convert_enabled' = TRUE
    /\ pause_enabled' = FALSE
    /\ stop_enabled' = FALSE
    /\ is_converting' = FALSE
    /\ gui_paused' = FALSE
    /\ UNCHANGED <<ctlVars, quota_left, threads, loopVars, dialogVars>>

\* on_status_update for the two terminal statuses (done, stopped), lines
\* 971-985
on_status_update ==
    /\ events /= <<>>
    /\ Head(events).sig = "status_update"
    /\ events' = Tail(events)
    /\ convert_enabled' = TRUE
    /\ pause_enabled' = FALSE
    /\ stop_enabled' = FALSE
    /\ is_converting' = FALSE
    /\ gui_paused' = FALSE
    /\ paused' = FALSE
    /\ stop_requested' = FALSE
    /\ UNCHANGED <<quota_left, threads, loopVars,
                   dialogVars>>

\* on_conversion_finished, lines 899-952: the quota is charged,
\* update_quota_display (lines 550-576) sets the convert button, and the
\* completion dialog is shown unless is_stop_requested() (lines 919-921)
on_conversion_finished ==
    /\ events /= <<>>
    /\ Head(events).sig = "finished"
    /\ events' = Tail(events)
    /\ quota_left' = IF quota_left > 0 THEN quota_left - 1 ELSE 0
    /\ convert_enabled' = (quota_left' > 0)
    /\ dialog' = IF stop_requested THEN "suppressed" ELSE "shown"
    /\ UNCHANGED <<ctlVars, pause_enabled, stop_enabled, is_converting,
                   gui_paused, threads, loopVars, stopAsked>>

\* on_conversion_error, lines 954-963
on_conversion_error ==
    /\ events /= <<>>
    /\ Head(events).sig = "error"
    /\ events' = Tail(events)
    /\ UNCHANGED <<ctlVars, buttonVars, is_converting, gui_paused, quota_left,
                   threads, loopVars,
                   dialogVars>>

\* a thread goes from one place of run_conversion to another
Goes(t, from, to) ==
    /\ t \in Threads
    /\ threads[t] = from
    /\ threads' = [threads EXCEPT ![t] = to]

\* run_conversion, lines 791-811: the thread begins run_conversion (it logs
\* the file and reads its duration) some time after its start
run_conversion(t) ==
    /\ Goes(t, "started", "before_wav")
    /\ UNCHANGED <<ctlVars, buttonVars, is_converting, gui_paused, quota_left,
                   events, loopVars,
                   dialogVars>>

\* run_conversion, lines 813-824: stop check, wait_if_paused, stop check
run_before_wav(t) ==
    /\ stop_requested \/ ~paused
    /\ IF stop_requested
       THEN Goes(t, "before_wav", "ended") /\ Emit("status_update", "STOPPED")
       ELSE Goes(t, "before_wav", "convert") /\ UNCHANGED events
    /\ UNCHANGED <<ctlVars, buttonVars, is_converting, gui_paused, quota_left,
                   loopVars,
                   dialogVars>>

\* line 826: convert_mp3_to_wav returns or raises
run_convert(t) ==
    /\ \/ Goes(t, "convert", "before_asr")
       \/ Goes(t, "convert", "raised")
    /\ UNCHANGED <<ctlVars, buttonVars, is_converting, gui_paused, quota_left,
                   events, loopVars,
                   dialogVars>>

\* lines 832-843 and the call of line 857: the same checks, then
\* transcribe_audio, which runs the chunked loop for a file over the limit
run_before_asr(t) ==
    /\ stop_requested \/ ~paused
    /\ IF stop_requested
       THEN Goes(t, "before_asr", "ended") /\ Emit("status_update", "STOPPED")
       ELSE /\ \/ Goes(t, "before_asr", "stop_check")
               \/ Goes(t, "before_asr", "asr_small")
            /\ UNCHANGED events
    /\ UNCHANGED <<ctlVars, buttonVars, is_converting, gui_paused, quota_left,
                   loopVars,
                   dialogVars>>

\* a file under the limit: one recognition, no loop (it returns a text or
\* an error text; reading the file may raise)
run_asr_small(t) ==
    /\ \/ Goes(t, "asr_small", "got_text")
       \/ Goes(t, "asr_small", "raised")
    /\ UNCHANGED <<ctlVars, buttonVars, is_converting, gui_paused, quota_left,
                   events, loopVars,
                   dialogVars>>

\* the start of an iteration of the loop (mp3_to_text.py lines 240-250)
run_stop_check(t) ==
    /\ stop_requested \/ ~paused
    /\ IF stop_requested
       THEN Goes(t, "stop_check", "got_stopped")
       ELSE Goes(t, "stop_check", "recognise")
    /\ UNCHANGED <<ctlVars, buttonVars, is_converting, gui_paused, quota_left,
                   events, loopVars,
                   dialogVars>>

\* the rest of the iteration (lines 252-290): on to the next chunk, or the
\* loop returns its aggregate or the error text of line 303
run_recognise(t) ==
    /\ \/ Goes(t, "recognise", "stop_check")
       \/ Goes(t, "recognise", "got_text")
    /\ UNCHANGED <<ctlVars, buttonVars, is_converting, gui_paused, quota_left,
                   events, loopVars,
                   dialogVars>>

\* lines 859-863: the sentinel came back
run_emit_stopped(t) ==
    /\ Goes(t, "got_stopped", "ended")
    /\ Emit("status_update", "STOPPED")
    /\ UNCHANGED <<ctlVars, buttonVars, is_converting, gui_paused, quota_left,
                   loopVars,
                   dialogVars>>

\* line 883
run_emit_done(t) ==
    /\ Goes(t, "got_text", "emit_finished")
    /\ Emit("status_update", "DONE")
    /\ UNCHANGED <<ctlVars, buttonVars, is_converting, gui_paused, quota_left,
                   loopVars,
                   dialogVars>>

\* line 884
run_emit_finished(t) ==
    /\ Goes(t, "emit_finished", "ended")
    /\ Emit("finished", "text")
    /\ UNCHANGED <<ctlVars, buttonVars, is_converting, gui_paused, quota_left,
                   loopVars,
                   dialogVars>>

\* run_conversion without the status of line 896
run_emit_raisedNoStatus(t) ==
    /\ Goes(t, "raised", "emit_error")
    /\ UNCHANGED <<ctlVars, buttonVars, is_converting, gui_paused, quota_left,
                   events, loopVars,
                   dialogVars>>

\* lines 893-896
run_emit_raised(t) ==
    /\ Goes(t, "raised", "emit_error")
    /\ Emit("status_update", "STOPPED")
    /\ UNCHANGED <<ctlVars, buttonVars, is_converting, gui_paused, quota_left,
                   loopVars,
                   dialogVars>>

\* line 897
run_emit_error(t) ==
    /\ Goes(t, "emit_error", "ended")
    /\ Emit("error", "e")
    /\ UNCHANGED <<ctlVars, buttonVars, is_converting, gui_paused, quota_left,
                   loopVars,
                   dialogVars>>

\* a step of the window or of one of its conversion threads
QtNext ==
    \/ start_conversion
    \/ toggle_pause_resume
    \/ stop_conversion
    \/ on_status_update
    \/ on_conversion_finished
    \/ on_conversion_error
    \/ \E t \in ThreadIds : run_conversion(t)
    \/ \E t \in ThreadIds : run_before_wav(t)
    \/ \E t \in ThreadIds : run_convert(t)
    \/ \E t \in ThreadIds : run_before_asr(t)
    \/ \E t \in ThreadIds : run_asr_small(t)
    \/ \E t \in ThreadIds : run_stop_check(t)
    \/ \E t \in ThreadIds : run_recognise(t)
    \/ \E t \in ThreadIds : run_emit_stopped(t)
    \/ \E t \in ThreadIds : run_emit_done(t)
    \/ \E t \in ThreadIds : run_emit_finished(t)
    \/ \E t \in ThreadIds : run_emit_raised(t)
    \/ \E t \in ThreadIds : run_emit_error(t)

QtSpec == FairInit /\ [][QtNext]_vars

(***************************************************************************)
(* Properties.                                                             *)
(***************************************************************************)

\* the worker is inside a "with self._lock:" block
WorkerInCS == pc \in {"check1_cs", "wait_cs", "check2_cs"}

\* the worker is inside wait_if_paused
InWait == pc \in {"wait", "wait_cs", "sleep"}

\* C1: the flags are read and written only inside a block that holds the
\* controller's lock, and at most one thread is inside such a block: a
\* thread inside one is the holder of the lock, and every change of a flag
\* is made by the controlling thread while it holds the lock.
C1_MutualExclusion ==
    /\ [](uiPc = "cs" => lock = "ui")
    /\ [](WorkerInCS => lock = "worker")
    /\ [](~(uiPc = "cs" /\ WorkerInCS))
    /\ [][ctlVars' /= ctlVars => (uiPc = "cs" /\ lock = "ui")]_vars

\* C1 witness: the controlling thread waits for the lock while the worker
\* is inside a poll of wait_if_paused
C1_Witness == uiPc = "acquire" /\ pc = "wait_cs" /\ lock = "worker"

\* C2: wait_if_paused returns only from a poll made under the lock in which
\* paused was false or stop_requested was true; a poll that finds paused
\* true and stop_requested false does not return (the worker sleeps and
\* polls again); a first poll that finds paused false returns at once,
\* without any sleep.
C2_WaitReturnsOnlyWhenAllowed ==
    [][ /\ (InWait /\ ~InWait') =>
              /\ pc = "wait_cs"
              /\ lock = "worker"
              /\ ~paused \/ stop_requested
              /\ pc' = "check2"
        /\ (pc = "wait_cs" /\ paused /\ ~stop_requested /\ pc' /= pc) =>
              pc' = "sleep"
        /\ (pc = "wait_cs" /\ ~paused /\ ~slept /\ pc' /= pc) =>
              (pc' = "check2" /\ ~slept')
      ]_vars

\* C2 witness: wait_if_paused has returned after having slept at least once
C2_Witness == pc = "check2" /\ slept /\ lock = "free"

\* C3: the controller never deadlocks. The lock is held only by a thread
\* that is inside a "with self._lock:" block (so the holder can always leave
\* it), the worker never sleeps with the lock, and a call of the controlling
\* thread that waits for the lock eventually gets it and completes, also
\* while the worker is blocked in wait_if_paused.
C3_NoDeadlock ==
    /\ [](lock = "ui" => uiPc = "cs")
    /\ [](lock = "worker" => WorkerInCS)
    /\ [](pc = "sleep" => lock /= "worker")
    /\ (uiPc = "acquire") ~> (uiPc = "idle")

\* C3 witness: the controlling thread is in a call and waits for the lock
\* while the worker, blocked in wait_if_paused, holds it for a poll
C3_Witness ==
    /\ uiPc = "acquire" /\ pc = "wait_cs" /\ lock = "worker"
    /\ paused /\ ~stop_requested /\ slept

\* C4: when the worker is in wait_if_paused and stop() has been called,
\* wait_if_paused returns, unless reset() clears the request first.
C4_StopEndsWait ==
    (InWait /\ stop_requested) ~> (~InWait \/ ~stop_requested)

\* C4 witness: wait_if_paused has returned after having slept, while paused
\* is still true and the stop request stands
C4_Witness == pc = "check2" /\ slept /\ paused /\ stop_requested

\* C5: when the worker is in wait_if_paused and paused is false (resume()
\* has been called), wait_if_paused returns, unless pause() is called again
\* first.
C5_ResumeEndsWait ==
    (InWait /\ ~paused) ~> (~InWait \/ paused)

\* C5 witness: wait_if_paused has returned after having slept, paused has
\* been cleared and there is no stop request
C5_Witness == pc = "check2" /\ slept /\ ~paused /\ ~stop_requested

\* C6: stop() sets stop_requested; afterwards no method other than reset()
\* makes it false again, and is_stop_requested() returns the value of the
\* flag (so it returns True from stop() until reset()).
C6_StopIsTerminal ==
    [][ /\ (uiPc = "cs" /\ uiOp = "stop" /\ uiPc' = "idle") => stop_requested'
        /\ (stop_requested /\ ~stop_requested') => (uiPc = "cs" /\ uiOp = "reset")
        /\ (uiPc = "cs" /\ uiOp = "is_stop_requested" /\ uiPc' = "idle") =>
              (uiRet' = IF stop_requested THEN "True" ELSE "False")
        /\ (pc \in {"check1_cs", "check2_cs"} /\ stop_requested /\ pc' /= pc) =>
              stopSeen'
      ]_vars

\* C6 witness: is_stop_requested() has returned True while paused is false
\* and the worker has slept in wait_if_paused: stop() was followed by
\* pause() and resume() or came between them
C6_Witness == uiRet = "True" /\ stop_requested /\ ~paused /\ slept

\* C7 as stated: if stop() ran while the loop was running (and no reset()
\* followed), the value the loop returns is the stopped sentinel; runs that
\* end in the exception handler of line 301 are left aside.
C7_StopAlwaysYieldsSentinel ==
    (pc = "done" /\ stopInLoop /\ exit /= 303) => result = StoppedText

\* C7 amended: once a stop check of the loop has found stop_requested true,
\* the worker does nothing but hand the stopped sentinel up to its caller,
\* and the value the loop returns is the sentinel.
C7_SeenStopYieldsSentinel ==
    stopSeen =>
        \/ pc = "chunk_result" /\ ret = StoppedText
        \/ pc = "done" /\ result = StoppedText /\ exit \in {243, 250, 277}

\* C7 witness: a run that stop() interrupted after its first chunk has
\* returned the sentinel
C7_Witness ==
    /\ pc = "done" /\ stopSeen /\ stopInLoop
    /\ result = StoppedText /\ Len(progress) >= 1

\* the checks an iteration makes before the recognition of its chunk
ChecksBeforeChunk == <<"stop_check", "wait_if_paused", "stop_check">>

\* the frame at depth k is past the checks of its current iteration
PastChecks(k) ==
    \/ k < Len(stack)
    \/ pc \in {"progress", "export", "transcribe_audio_baidu", "load", "asr",
               "chunk_result"}

\* C8: in every iteration the worker makes a stop check, then calls
\* wait_if_paused, then makes a second stop check, in this order, and only
\* then reports progress and has the chunk recognised; both checks have
\* found stop_requested false in an iteration that goes that far.
C8_ChecksPrecedeRecognition ==
    \A k \in 1..Len(stack) :
        /\ \E n \in 0..3 : stack[k].checks = SubSeq(ChecksBeforeChunk, 1, n)
        /\ PastChecks(k) <=> stack[k].checks = ChecksBeforeChunk

\* C8 witness: the recognition request of the second chunk is in flight
C8_Witness ==
    /\ pc = "asr" /\ Len(stack) = 1
    /\ Top.i = 1 /\ Top.checks = ChecksBeforeChunk

\* the progress reports of a run over n chunks
ExpectedProgress(n) == [k \in 1..(n + 1) |-> <<k - 1, n>>]

\* C9: a run of the loop over N chunks that goes to its end (it returns the
\* aggregate at line 299) has called the progress callback exactly N+1
\* times, with (0, N), (1, N), ..., (N, N) in this order.
C9_ProgressCalls ==
    (pc = "done" /\ exit = 299) =>
        progress = ExpectedProgress(ChunksNumber(audio.len))

\* C10: every progress report (current, total) has 0 <= current <= total,
\* and the current values reported in a run never decrease.
C10_ProgressMonotonic ==
    /\ \A k \in 1..Len(progress) :
          0 <= progress[k][1] /\ progress[k][1] <= progress[k][2]
    /\ \A k \in 1..(Len(progress) - 1) : progress[k][1] <= progress[k + 1][1]

(***************************************************************************)
(* The order of the worker's reports, calls and recognitions.              *)
(***************************************************************************)
\* the ways a recognition request ends: lines 201, 205 and 208
Outcomes == {"ok", "err", "exc"}

\* the k-th entry of the log is the end of the recognition of a chunk
IsRecognition(k) == log[k].ev \in Outcomes /\ log[k].d >= 1

\* C11: in a run that has ended, every recognition of a chunk that has
\* completed is followed by a call of the progress callback.
C11_ProgressAfterEveryChunk ==
    pc = "done" =>
        \A k \in 1..Len(log) :
            IsRecognition(k) =>
                \E j \in (k + 1)..Len(log) : log[j].ev = "progress"

\* C11, amended: what the worker does next after the recognition of chunk i
\* of a frame has completed is the progress report with index i+1 of the
\* same frame (the report that opens the next iteration, or the final
\* report), and a run that ended with no report after its last recognition
\* has seen the stop request at a stop check.
C11_NextReportFollowsChunk ==
    \A k \in 1..Len(log) :
        IsRecognition(k) =>
            IF k < Len(log)
            THEN /\ log[k + 1].ev = "progress"
                 /\ log[k + 1].d = log[k].d
                 /\ log[k + 1].i = log[k].i + 1
            ELSE pc = "done" => stopSeen

\* C11 witness: a run has ended after a recognition that was followed by
\* the report of the next iteration and one that was followed by the final
\* report
C11_Witness ==
    /\ pc = "done" /\ exit = 299
    /\ \E k \in 1..(Len(log) - 1) :
          /\ IsRecognition(k) /\ log[k].d = 1
          /\ log[k + 1].i < ChunksNumber(audio.len)
    /\ \E k \in 1..(Len(log) - 1) :
          /\ IsRecognition(k) /\ log[k].d = 1
          /\ log[k + 1].i = ChunksNumber(audio.len)

\* a call of line 273 made by the outermost frame of the loop
IsTopSubmit(e) == e.ev = "submit" /\ e.d = 1

\* the chunk indices the outermost frame has submitted for recognition
SubmittedIndices ==
    LET s == SelectSeq(log, IsTopSubmit)
    IN  [k \in 1..Len(s) |-> s[k].i]

\* C12: whatever pause() and resume() calls are interleaved with the loop,
\* the chunk indices submitted for recognition are 0, 1, ..., k-1 in this
\* order, each once, with k <= N; k = N in a run that went through the loop
\* and returned the aggregate.
C12_NoChunkLostOrDuplicated ==
    LET k == Len(SubmittedIndices)
    IN  /\ SubmittedIndices = [j \in 1..k |-> j - 1]
        /\ k <= ChunksNumber(audio.len)
        /\ (pc = "done" /\ exit = 299) => k = ChunksNumber(audio.len)

\* C12 witness: a run over three chunks has returned the aggregate, and the
\* worker had to wait in wait_if_paused before the last chunk
C12_Witness ==
    /\ pc = "done" /\ exit = 299 /\ slept
    /\ ChunksNumber(audio.len) = 3
    /\ Len(SubmittedIndices) = 3

(***************************************************************************)
(* The aggregate.                                                          *)
(***************************************************************************)
\* the end of a recognition request made for a chunk of the outermost frame
IsTopOutcome(e) == e.ev \in Outcomes /\ e.d = 1

\* such a request that succeeded (line 201)
IsTopOk(e) == e.ev = "ok" /\ e.d = 1

\* the texts of the chunks whose recognition succeeded, in chunk order
GoodTexts ==
    LET s == SelectSeq(log, IsTopOk)
    IN  [k \in 1..Len(s) |-> s[k].t]

\* C13: the aggregate returned at line 299 is the newline-join, in chunk
\* order, of the texts of the chunks whose recognition succeeded, and of
\* nothing else: no text that came from a failed recognition is in it.
C13_AggregateOfSuccessfulChunks ==
    (pc = "done" /\ exit = 299) => result = Join(GoodTexts)

\* the texts transcribe_audio_baidu returns when the recognition failed
FailureTexts == {BaiduErrorText, BaiduExceptionText}

\* C14: a failed recognition of chunk i does not end the run: the frame that
\* receives the failure stays on the stack and goes on with chunk i+1 at
\* its first stop check, or, after the last chunk, to the final progress
\* report, which is followed by the return of the aggregate at line 299.
C14_FailureDoesNotAbort ==
    /\ [][(pc = "chunk_result" /\ ret \in FailureTexts /\ pc' # pc) =>
            /\ Len(stack') = Len(stack)
            /\ stack'[Len(stack')].i = Top.i + 1
            /\ stack'[Len(stack')].chunks_number = Top.chunks_number
            /\ pc' = IF Top.i + 1 < Top.chunks_number THEN "check1"
                                                      ELSE "finish"]_vars
    /\ [][(pc = "finish" /\ pc' # pc) =>
            /\ progress' = Append(progress,
                                  <<Top.chunks_number, Top.chunks_number>>)
            /\ \/ pc' = "done" /\ exit' = 299 /\ result' = Join(Top.transcription)
               \/ pc' = "chunk_result" /\ ret' = Join(Top.transcription)]_vars

\* C14 witness: the recognition of chunk 0 failed and of chunk 2 too, and
\* the run has returned the aggregate after the final report
C14_Witness ==
    /\ pc = "done" /\ exit = 299
    /\ progress[Len(progress)] = <<3, 3>>
    /\ \E k \in 1..Len(log) : /\ IsTopOutcome(log[k]) /\ log[k].i = 0
                              /\ log[k].ev = "err"
    /\ \E k \in 1..Len(log) : /\ IsTopOutcome(log[k]) /\ log[k].i = 2
                              /\ log[k].ev = "exc"

\* C15: a run that returns the aggregate after the recognition of every one
\* of its N chunks has failed returns the empty string.
C15_AllFailedGivesEmpty ==
    (/\ pc = "done" /\ exit = 299
     /\ Len(SelectSeq(log, IsTopOutcome)) = ChunksNumber(audio.len)
     /\ GoodTexts = <<>>) => result = <<>>

(***************************************************************************)
(* One recognition, one worker at a time.                                  *)
(***************************************************************************)
\* recognition requests and their ends alternate in the log: a request is
\* followed at once by its own end, or it is the one in flight
OneRecognitionInFlight ==
    /\ \A k \in 1..Len(log) :
          log[k].ev = "asr" =>
              IF k < Len(log)
              THEN /\ log[k + 1].ev \in Outcomes
                   /\ log[k + 1].d = log[k].d
                   /\ log[k + 1].i = log[k].i
              ELSE pc = "asr"
    /\ \A k \in 1..Len(log) :
          log[k].ev \in Outcomes => k > 1 /\ log[k - 1].ev = "asr"

\* the conversion threads of the Qt window that are inside the chunked loop
WorkersInLoop == {t \in Threads : threads[t] \in {"stop_check", "recognise"}}

\* C16: within a run at most one recognition request is in flight, a request
\* starts only after the one before it has returned, and not more than one
\* conversion thread of the Qt window is inside the loop at any time.
C16_StrictlySequential ==
    /\ OneRecognitionInFlight
    /\ Cardinality(WorkersInLoop) <= 1

(***************************************************************************)
(* Where stop and pause take effect.                                       *)
(***************************************************************************)
\* where the worker can be between a stop() that came while a recognition
\* request was in flight and the return of the sentinel: in the request, in
\* the handling of its result, at the first stop check of the next
\* iteration, at the final report, and out of the loop
AfterStopInFlight == {"asr", "chunk_result", "check1", "check1_cs", "finish",
                      "done"}

\* C17: a stop() that comes while the recognition of chunk i is in flight
\* does not cut it short: the request ends as a recognition does, its
\* result is handled, and the next thing the worker does with the
\* controller is the stop check of line 240 before chunk i+1, which is the
\* first to see the request and returns the sentinel; after the last chunk
\* there is no such check and the aggregate is returned.
C17_StopNoticedAtNextChunk ==
    stopInFlight =>
        /\ stop_requested
        /\ pc \in AfterStopInFlight
        /\ pc # "asr" => log[Len(log)].ev # "asr"
        /\ (pc = "chunk_result" /\ ~stopSeen) => ret # StoppedText
        /\ stopSeen => \/ pc = "chunk_result" /\ ret = StoppedText
                       \/ pc = "done" /\ result = StoppedText /\ exit \in {243, 277}
        /\ (pc = "done" /\ ~stopSeen) => exit = 299

\* C17 witness: stop() came while chunk 0 of three was being recognised,
\* chunk 0 has its result in the log, chunk 1 was never submitted, and the
\* run has returned the sentinel from line 243
C17_Witness ==
    /\ stopInFlight /\ pc = "done" /\ exit = 243
    /\ ChunksNumber(audio.len) = 3
    /\ SubmittedIndices = <<0>>
    /\ log[Len(log)].ev \in Outcomes

\* the places of the worker outside the controller
OutsideController == {"transcribe_audio_baidu", "asr", "load", "progress",
                      "export", "chunk_result", "finish", "sleep"}

\* where the worker can be while a pause() that came during a recognition
\* request is in force: in the request, in the handling of its result, at
\* the first stop check of the next iteration, in wait_if_paused, at the
\* second stop check (after a stop request ended the wait), at the final
\* report after the last chunk, and out of the loop
AfterPauseInFlight == {"asr", "chunk_result", "check1", "check1_cs", "wait",
                       "wait_cs", "sleep", "check2", "check2_cs", "finish",
                       "done"}

\* C18: the controller holds the worker back in wait_if_paused only.
\* Everywhere else the worker can take its next step whatever the flags
\* are (a stop check only needs the lock, which the other thread holds for
\* the length of one assignment or read).  A pause() that comes while the
\* recognition of chunk i is in flight leaves the request to end as a
\* recognition does and its result to be handled; while that pause is in
\* force the worker does not report, export or submit chunk i+1.
C18_SuspensionOnlyInWait ==
    /\ pc \in OutsideController => ENABLED WorkerStep
    /\ pc \in {"check1_cs", "check2_cs"} => ENABLED WorkerCritical
    /\ (pc \in {"check1", "check2"} /\ lock = "free") => ENABLED WorkerAcquire
    /\ pauseInFlight =>
          /\ paused
          /\ pc \in AfterPauseInFlight
          /\ pc # "asr" => log[Len(log)].ev # "asr"
          /\ (pc = "chunk_result" /\ ~stopSeen) => ret # StoppedText
          /\ pc \in {"check2", "check2_cs"} => stop_requested

\* C18 witness: pause() came while chunk 0 of three was being recognised;
\* chunk 0 has its result in the log and in the transcription, and the
\* worker sleeps in wait_if_paused before chunk 1
C18_Witness ==
    /\ pauseInFlight /\ pc = "sleep" /\ Len(stack) = 1
    /\ Top.i = 1 /\ Top.transcription # <<>>
    /\ log[Len(log)].ev = "ok"

\* C19: the stop check that first finds stop_requested set returns the
\* sentinel itself (line 243 or 250); from then on the worker exports and
\* submits no chunk and calls the progress callback no more, each enclosing
\* frame hands the sentinel on as it is (line 277), and the caller of
\* transcribe_audio receives the sentinel.
C19_SentinelFromFirstObservation ==
    /\ [][(~stopSeen /\ stopSeen') =>
            /\ pc \in {"check1_cs", "check2_cs"}
            /\ stack' = Pop
            /\ \/ pc' = "chunk_result" /\ ret' = StoppedText
               \/ /\ pc' = "done" /\ result' = StoppedText
                  /\ exit' = IF pc = "check1_cs" THEN 243 ELSE 250]_vars
    /\ [][stopSeen => /\ log' = log
                      /\ progress' = progress
                      /\ file' = file]_vars
    /\ [][(stopSeen /\ pc = "chunk_result" /\ pc' # pc) =>
            /\ stack' = Pop
            /\ \/ pc' = "chunk_result" /\ ret' = StoppedText
               \/ pc' = "done" /\ result' = StoppedText /\ exit' = 277]_vars
    /\ [](stopSeen => pc \in {"chunk_result", "done"})

\* C19 witness: a nested loop saw the stop request, and the sentinel has
\* come through the outer frame to the caller
C19_Witness ==
    /\ stopSeen /\ pc = "done" /\ exit = 277 /\ result = StoppedText
    /\ progress # <<>>

(***************************************************************************)
(* A run after reset().                                                    *)
(***************************************************************************)
\* the return lines of the sentinel
SentinelExits == {243, 250, 277}

\* C20: reset() leaves paused and stop_requested false whatever they were.
\* A run that starts after a reset() that followed a stop(), with no pause()
\* and no stop() after it, finds both flags false at every check: it never
\* waits, never sees a stop request and never returns the sentinel; over a
\* file that is chunked (the keys are set and the file is over the limit)
\* it goes through the loop, and when it returns the
\* aggregate (line 299; the other way out is the exception handler of line
\* 303) it has submitted all N chunks.
C20_FreshRunAfterReset ==
    /\ [][(uiPc = "cs" /\ uiOp = "reset" /\ uiPc' = "idle") =>
            (~paused' /\ ~stop_requested')]_vars
    /\ [](resetBeforeRun =>
            /\ ~paused /\ ~stop_requested
            /\ ~slept /\ ~stopSeen
            /\ pc # "sleep"
            /\ pc = "done" =>
                 /\ result # StoppedText
                 /\ exit \notin SentinelExits
                 /\ (keysOk /\ WavSize(audio.len, audio.rate) > SizeLimit) =>
                        exit \in {299, 303}
                 /\ exit = 299 =>
                        Len(SubmittedIndices) = ChunksNumber(audio.len))

\* C20 witness: after stop() and reset() a run over three chunks has
\* returned the aggregate of all three
C20_Witness ==
    /\ resetBeforeRun /\ pc = "done" /\ exit = 299
    /\ ChunksNumber(audio.len) = 3
    /\ SubmittedIndices = <<0, 1, 2>>
    /\ result # <<>>

\* the flags of the controller are both false
FlagsClear == ~paused /\ ~stop_requested

\* the thread t begins run_conversion in this step
Begins(t) ==
    /\ t \in Threads
    /\ threads[t] = "started"
    /\ threads'[t] = "before_wav"

\* C21 as stated: at the moment a thread started by the window begins
\* run_conversion, paused and stop_requested are both false.
C21_FlagsClearWhenRunBegins ==
    [][\A t \in ThreadIds : Begins(t) => FlagsClear]_vars

\* C21 amended: start_conversion resets the controller before it starts the
\* thread, so at the moment the thread is started both flags are false,
\* however the run before ended; from then on a flag becomes true only by a
\* click on the pause or the stop button, which may come before the thread
\* begins run_conversion.
C21_FlagsClearWhenThreadStarts ==
    [][ /\ Len(threads') > Len(threads) => FlagsClear'
        /\ (~paused /\ paused') => toggle_pause_resume
        /\ (~stop_requested /\ stop_requested') => stop_conversion
      ]_vars

\* C21 witness: a third thread has been started and has not begun
\* run_conversion, after two runs that have ended, and the flags are false
C21_Witness ==
    /\ Len(threads) = 3
    /\ threads[1] = "ended" /\ threads[2] = "ended"
    /\ threads[3] = "started"
    /\ FlagsClear

\* the worker takes this step: its position, its frames or what it has
\* produced change, or it takes or gives back the lock
WorkerMoves ==
    \/ workerVars' /= workerVars
    \/ lock' /= lock /\ "worker" \in {lock, lock'}

\* C22: no step of the worker (transcribe_audio_baidu, the chunked loop,
\* wait_if_paused, is_stop_requested) writes paused or stop_requested; the
\* worker only reads the flags.
C22_WorkerOnlyReadsFlags ==
    [][WorkerMoves => UNCHANGED ctlVars]_vars

\* C22 witness: the worker has gone through its stop checks and has slept
\* in wait_if_paused, its run has returned the sentinel, and both flags
\* still stand as the controlling thread set them
C22_Witness ==
    /\ pc = "done" /\ result = StoppedText
    /\ slept /\ stopSeen
    /\ paused /\ stop_requested

\* an entry of the log that is a call of client.asr (line 189)
IsRequest(e) == e.ev = "asr"

\* the file given to the program is within the size limit of line 161
SmallInput == WavSize(audio.len, audio.rate) <= SizeLimit

\* nothing of the chunked loop has happened: no frame, no progress
\* callback, no stop check, no wait_if_paused, no temporary chunk file
NoLoop ==
    /\ stack = <<>>
    /\ progress = <<>>
    /\ pc \in {"transcribe_audio_baidu", "asr", "done"}
    /\ lock /= "worker"
    /\ ~slept /\ ~stopSeen
    /\ file = audio
    /\ \A k \in 1..Len(log) : log[k].ev \notin {"progress", "submit"}

\* C23 as stated: for a file of at most 10 * 1024 * 1024 bytes
\* transcribe_audio_baidu does not enter the loop, calls no progress
\* callback, does not consult the controller, and has made exactly one
\* recognition call when it returns.
C23_SmallFileOneRecognition ==
    SmallInput =>
        /\ NoLoop
        /\ pc = "done" => Len(SelectSeq(log, IsRequest)) = 1

\* C23 amended: for a file of at most 10 * 1024 * 1024 bytes
\* transcribe_audio_baidu does not enter the loop, calls no progress
\* callback and does not consult the controller; when it returns it has
\* made exactly one recognition call if the API keys are configured
\* (returning at line 201, 205 or 208), and none if they are not (line 145).
C23_SmallFileNoLoop ==
    SmallInput =>
        /\ NoLoop
        /\ pc = "done" =>
              IF keysOk
              THEN /\ Len(SelectSeq(log, IsRequest)) = 1
                   /\ exit \in {201, 205, 208}
              ELSE /\ log = <<>>
                   /\ exit = 145 /\ result = KeysMissingText

\* C23 witness: the longest of the files within the limit (105 s at 88200
\* bytes per second) has been recognised by one call, while the controller
\* was paused and a stop was requested
C23_Witness ==
    /\ SmallInput
    /\ audio.len = 7 * (chunk_length_ms \div 4) /\ audio.rate = 88200
    /\ pc = "done" /\ exit = 201
    /\ Len(log) = 2
    /\ paused /\ stop_requested

\* the two ends of the slice of line 260, i*chunk_length_ms and
\* (i+1)*chunk_length_ms, as the slice clips them to the length of the audio
ChunkStart(len, i) == Min(i * chunk_length_ms, len)
ChunkEnd(len, i) == Min((i + 1) * chunk_length_ms, len)

\* C24: for audio of length L ms the loop has floor(L / 60000) + 1 chunks;
\* chunk i is [i*60000, (i+1)*60000) clipped to L; the first chunk starts at
\* 0, each chunk starts where the one before ends (so they are contiguous,
\* do not overlap and come in increasing start offset), none is longer than
\* 60000 ms and the last one ends at L; the file the loop submits for chunk
\* i holds exactly that slice.
C24_ChunksPartitionAudio ==
    \A k \in 1..Len(stack) :
        LET f == stack[k]
            N == f.len \div chunk_length_ms + 1
        IN  /\ f.chunks_number = N
            /\ f.i \in 0..N
            /\ ChunkStart(f.len, 0) = 0
            /\ ChunkEnd(f.len, N - 1) = f.len
            /\ \A i \in 0..(N - 1) :
                  /\ ChunkStart(f.len, i) <= ChunkEnd(f.len, i)
                  /\ ChunkEnd(f.len, i) - ChunkStart(f.len, i) <= chunk_length_ms
                  /\ i + 1 < N => ChunkStart(f.len, i + 1) = ChunkEnd(f.len, i)
                  /\ i + 1 < N => ChunkEnd(f.len, i) = (i + 1) * chunk_length_ms
            /\ (k = Len(stack) /\ pc = "transcribe_audio_baidu") =>
                  file.len = ChunkEnd(f.len, f.i) - ChunkStart(f.len, f.i)
            /\ k < Len(stack) =>
                  stack[k + 1].len = ChunkEnd(f.len, f.i) - ChunkStart(f.len, f.i)

\* C24 witness: of 135 s of audio the third and last chunk, clipped to
\* 15 s, has been submitted
C24_Witness ==
    /\ Len(stack) = 1
    /\ pc = "transcribe_audio_baidu"
    /\ Top.len = 2 * chunk_length_ms + chunk_length_ms \div 4
    /\ Top.chunks_number = 3 /\ Top.i = 2
    /\ file.len = chunk_length_ms \div 4

\* C25: every chunk the loop submits for recognition (line 273) is a
\* non-empty slice of the audio: its duration is positive.
C25_SubmittedChunksNonEmpty ==
    (stack /= <<>> /\ pc \in {"transcribe_audio_baidu", "asr"}) => file.len > 0

\* C26: chunking is one level deep: no chunk file is routed back into
\* transcribe_large_audio_baidu (there is never more than one frame of the
\* loop), and every total given to the progress callback is the number of
\* chunks N of the file the run was started with.
C26_OneLevelChunking ==
    /\ Len(stack) <= 1
    /\ \A k \in 1..Len(progress) : progress[k][2] = ChunksNumber(audio.len)

\* an entry of the log that is a chunk handed to recognition (line 273) by
\* a frame of the loop at any depth
IsSubmit(e) == e.ev = "submit"

\* C27: a run of the chunked loop returns (the sentinel, the aggregate or
\* an error string) after at most N chunk recognitions, N being the number
\* of chunks of the file the run was started with, also when a 60 s chunk
\* file is itself over the size limit.
C27_AtMostNRecognitions ==
    /\ Len(SelectSeq(log, IsSubmit)) <= ChunksNumber(audio.len)
    /\ pc = "done" => exit \in {145, 201, 205, 208, 243, 250, 277, 299, 303}

\* where the worker can be while a pause() that came during the recognition
\* of chunk i is in force and no stop is requested, when the pause holds it
\* back before chunk i+1: in the request, in the handling of its result, at
\* the first stop check of the next iteration and in wait_if_paused
HeldByPause == {"asr", "chunk_result", "check1", "check1_cs", "wait",
                "wait_cs", "sleep"}

\* C28 as stated: the recognition of a chunk starts only after the three
\* checks of its iteration; and while a pause() that came during chunk i is
\* in force with no resume(), reset() or stop() after it, the worker gets
\* no further than wait_if_paused of the next iteration: chunk i+1 is not
\* submitted and no progress callback with index i+1 is made.
C28_PauseTakesEffectAtBoundary ==
    /\ (stack /= <<>> /\ pc \in {"progress", "export"}) =>
          Top.checks = ChecksBeforeChunk
    /\ (pauseInFlight /\ ~stop_requested) => pc \in HeldByPause

\* C28 amended: the recognition of chunk i starts only after
\* wait_if_paused of iteration i has returned, from a poll that found
\* paused false or stop_requested true, and the stop check that follows
\* has found stop_requested false.  While a pause() that came during chunk
\* i is in force with no resume(), reset() or stop() after it, no chunk is
\* submitted and no iteration reports progress; when chunk i is not the
\* last one the worker stays in wait_if_paused of iteration i+1, and when
\* it is the last one the pause has no effect: the report (N, N) of line
\* 294 is made and the aggregate is returned at line 299.
C28_PauseHoldsUnlessLastChunk ==
    /\ [][(pc = "wait_cs" /\ pc' = "check2") => (~paused \/ stop_requested)]_vars
    /\ [][(pc = "check2_cs" /\ pc' = "progress") => ~stop_requested]_vars
    /\ []((stack /= <<>> /\ pc \in {"progress", "export"}) =>
            Top.checks = ChecksBeforeChunk)
    /\ []((pauseInFlight /\ ~stop_requested) =>
            /\ paused
            /\ pc \in HeldByPause \cup {"finish", "done"}
            /\ log[Len(log)].ev # "submit"
            /\ pc = "finish" => Top.i = Top.chunks_number
            /\ pc = "done" => exit = 299)

\* C28 witness: pause() came during the last of three chunks and nothing
\* followed it; the run has made its final report and returned the
\* aggregate while paused
C28_Witness ==
    /\ pauseInFlight /\ paused /\ ~stop_requested
    /\ pc = "done" /\ exit = 299
    /\ progress = ExpectedProgress(3)

\* the worker is in wait_if_paused or at the stop check that follows it
WaitOrSecondCheck == InWait \/ pc \in {"check2", "check2_cs"}

\* C29: when stop() is called while the worker is blocked in
\* wait_if_paused of the loop, the worker submits no chunk and calls the
\* progress callback no more: as long as the stop request stands it goes
\* from wait_if_paused to the second stop check only, and from there it
\* returns the stopped sentinel; and the run does return the sentinel,
\* also when resume() is never called, unless reset() withdraws the stop
\* request.
C29_StopEndsPausedRun ==
    /\ [][(WaitOrSecondCheck /\ stop_requested /\ stop_requested') =>
            /\ log' = log
            /\ progress' = progress
            /\ \/ WaitOrSecondCheck'
               \/ /\ pc = "check2_cs" /\ stopSeen'
                  /\ \/ pc' = "done" /\ result' = StoppedText /\ exit' = 250
                     \/ pc' = "chunk_result" /\ ret' = StoppedText
          ]_vars
    /\ (InWait /\ paused /\ stop_requested) ~>
          \/ pc = "done" /\ result = StoppedText /\ exit = 250
          \/ ~stop_requested

\* C29 witness: the worker slept in wait_if_paused before chunk 1 of three;
\* the run has returned the sentinel at line 250 with paused still true,
\* chunk 0 being the only one submitted and reported
C29_Witness ==
    /\ pc = "done" /\ exit = 250 /\ result = StoppedText
    /\ slept /\ paused /\ stop_requested
    /\ SubmittedIndices = <<0>>
    /\ progress = <<<<0, 3>>>>

\* C30: the chunked loop returns the stopped sentinel only when one of its
\* stop checks has found stop_requested true, whatever the texts are that
\* the recognition service returns for the chunks.
C30_SentinelOnlyAfterStopSeen ==
    (pc = "done" /\ result = StoppedText) => stopSeen

\* the controlling thread completes its call of the method op in this step
Completes(op) == uiPc = "cs" /\ uiOp = op /\ uiPc' = "idle"

\* C31: each operation of the controller changes its own flag only: pause()
\* sets paused and resume() clears it, both leaving stop_requested as it
\* is; stop() sets stop_requested and leaves paused as it is; is_paused(),
\* is_stop_requested() and the polls of wait_if_paused leave both flags as
\* they are; entering a method and taking the lock change no flag.
C31_OperationsChangeOwnFlagOnly ==
    [][ /\ Completes("pause") =>
              (paused' /\ stop_requested' = stop_requested)
        /\ Completes("resume") =>
              (~paused' /\ stop_requested' = stop_requested)
        /\ Completes("stop") =>
              (stop_requested' /\ paused' = paused)
        /\ (Completes("is_paused") \/ Completes("is_stop_requested")) =>
              UNCHANGED ctlVars
        /\ uiPc # "cs" => UNCHANGED ctlVars
        /\ (InWait /\ workerVars' # workerVars) => UNCHANGED ctlVars
      ]_vars

\* C31 witness: is_paused() has returned True after pause() and stop(),
\* both flags stand, and the worker is in wait_if_paused
C31_Witness ==
    /\ uiPc = "idle" /\ uiRet = "True"
    /\ paused /\ stop_requested
    /\ InWait

\* the frame at depth k has a chunk file of its own making: it has exported
\* the chunk and its call of line 273 has not yet come to the finally of
\* lines 286-290
HoldsChunkFile(k) ==
    \/ k < Len(stack)
    \/ k = Len(stack) /\ pc \in {"transcribe_audio_baidu", "asr", "load",
                               "chunk_result"}

\* C32: the temporary file of a chunk is removed before the next chunk is
\* started and before the run returns: a frame that is not between its
\* export and its finally has no chunk file, no chunk file exists when the
\* run has returned, and at most one chunk file exists at any time.
C32_ChunkFilesRemoved ==
    /\ \A k \in 1..MaxDepth : k \in tempfiles => HoldsChunkFile(k)
    /\ pc = "done" => tempfiles = {}
    /\ Cardinality(tempfiles) <= 1

\* the worker is at a place where an exception is raised in this step:
\* AudioSegment.from_wav fails (line 223), the slice, mkstemp or the export
\* fails (lines 260-269), or the nesting of calls of line 273 is too deep
Raises ==
    \/ pc = "load" /\ pc' \notin {"load", "check1"}
    \/ pc = "export" /\ pc' \notin {"export", "transcribe_audio_baidu"}
    \/ /\ pc = "transcribe_audio_baidu" /\ pc' # pc
       /\ keysOk
       /\ WavSize(file.len, file.rate) > SizeLimit
       /\ Len(stack) >= MaxDepth

\* the handler of lines 301-303 has ended the invocation of
\* transcribe_large_audio_baidu that was running, which was to be frame
\* number depth: its caller has the error string
Returned303(depth) ==
    /\ Len(stack') = depth - 1
    /\ IF depth = 1
       THEN pc' = "done" /\ result' = LargeErrorText /\ exit' = 303
       ELSE pc' = "chunk_result" /\ ret' = LargeErrorText

\* C33: no exception comes out of transcribe_large_audio_baidu: when the
\* loading of the audio, the slicing or the export of a chunk, or anything
\* in the body of the loop raises, the invocation ends there, its caller
\* receives the error string of line 303 (not the aggregate, not the
\* sentinel), and the invocation makes no progress report on the way out;
\* a run that ended so has not made its final (N, N) report.
C33_ExceptionsBecomeErrorString ==
    /\ [][Raises =>
            /\ Returned303(IF pc = "load" THEN Len(stack) + 1 ELSE Len(stack))
            /\ progress' = progress
            /\ log' = log
          ]_vars
    /\ [](pc \in {"transcribe_audio_baidu", "asr", "load", "check1",
                  "check1_cs", "wait", "wait_cs", "sleep", "check2",
                  "check2_cs", "progress", "export", "chunk_result",
                  "finish", "done"})
    /\ []((pc = "done" /\ exit = 303) =>
            /\ result = LargeErrorText
            /\ \A k \in 1..Len(log) :
                  ~(/\ log[k].ev = "progress" /\ log[k].d = 1
                    /\ log[k].i = ChunksNumber(audio.len)))

\* C33 witness: the export of chunk 1 of a file whose chunks are under the
\* size limit has failed after chunk 0 was recognised; the run has returned
\* the error string
C33_Witness ==
    /\ pc = "done" /\ exit = 303 /\ result = LargeErrorText
    /\ audio.rate = 88200
    /\ SubmittedIndices = <<0>>
    /\ progress = <<<<0, 3>>, <<1, 3>>>>

\* C34: wait_if_paused looks at the flags at its polls only.  The worker
\* leaves wait_if_paused in a poll (made under the lock) that finds paused
\* false or stop_requested true, and in no other step; between two polls
\* no call of the controlling thread moves it.  When resume() and then
\* pause() both come between two consecutive polls, the next poll does not
\* let the worker go on account of them: it goes on only if a stop is
\* requested, and otherwise it sleeps again.
C34_FlagsSeenAtPollsOnly ==
    /\ [][(InWait /\ ~InWait') =>
            /\ pc = "wait_cs" /\ lock = "worker"
            /\ ~paused \/ stop_requested
          ]_vars
    /\ [][(BetweenPolls /\ ctlVars' # ctlVars) => pc' = pc]_vars
    /\ [](pollGap = "seen" => stop_requested)
    /\ [](pollGap = "unseen" => (InWait /\ slept))

\* C34 witness: resume() and pause() came between two polls of
\* wait_if_paused; the poll after them found paused true and the worker
\* sleeps again
C34_Witness ==
    /\ pollGap = "unseen"
    /\ pc = "sleep" /\ paused /\ ~stop_requested

\* a step of the conversion thread t (run_conversion, lines 791-897)
RunStep(t) ==
    \/ run_conversion(t)
    \/ run_before_wav(t)
    \/ run_convert(t)
    \/ run_before_asr(t)
    \/ run_asr_small(t)
    \/ run_stop_check(t)
    \/ run_recognise(t)
    \/ run_emit_stopped(t)
    \/ run_emit_done(t)
    \/ run_emit_finished(t)
    \/ run_emit_raised(t)
    \/ run_emit_error(t)

\* the slots connected to the signals of the threads (lines 899-994)
HandleEvent ==
    \/ on_status_update
    \/ on_conversion_finished
    \/ on_conversion_error

\* the iteration after which the loop of line 238 is over
run_last_chunk(t) == run_recognise(t) /\ threads'[t] = "got_text"

\* every started thread keeps running, its loop has finitely many
\* iterations (line 238), and the event loop keeps delivering the queued
\* signals
QtFairness ==
    /\ \A t \in ThreadIds : WF_vars(RunStep(t))
    /\ \A t \in ThreadIds : SF_vars(run_last_chunk(t))
    /\ WF_vars(HandleEvent)

QtFairSpec == QtSpec /\ QtFairness

\* the thread t has emitted its terminal status (lines 816, 823, 836, 842,
\* 862, 883, 896)
HasEmitted(t) ==
    /\ t \in Threads
    /\ threads[t] \in {"emit_finished", "emit_error", "ended"}

\* this step emits the signal sig with the argument arg
Emits(sig, arg) == events' = Append(events, [sig |-> sig, arg |-> arg])

\* this step emits a terminal status
EmitsTerminal ==
    \/ Emits("status_update", "DONE")
    \/ Emits("status_update", "STOPPED")

\* this step takes the thread t from the place from to the place to
Moves(t, from, to) == threads[t] = from /\ threads'[t] = to

\* this step is a step of the thread t
Steps(t) == threads'[t] # threads[t]

\* this step handles a terminal status (on_status_update, lines 971-985)
HandlesTerminal ==
    /\ events # <<>>
    /\ Head(events).sig = "status_update"
    /\ events' = Tail(events)

HandlesFinished ==
    /\ events # <<>>
    /\ Head(events).sig = "finished"
    /\ events' = Tail(events)

\* C36: when a run completes although the user requested a stop since it
\* was started (the request came too late for any check), the handling of
\* its finished signal does not show the completion dialog.
C36_NoDialogAfterLateStop ==
    [][(HandlesFinished /\ stopAsked) => dialog' # "shown"]_vars

\* C37: between the handlers of the window, its is_paused equals the
\* paused flag of the controller; while is_converting is false the flags of
\* the controller do not change, and both are false.
C37_MirrorAndIdleFlags ==
    /\ [](gui_paused = paused)
    /\ [](~is_converting => (~paused /\ ~stop_requested))
    /\ [][~is_converting => UNCHANGED ctlVars]_vars

\* C37 witness: the stop button was clicked during the only run, and the
\* handling of its stopped status has put the window back to idle
C37_Witness ==
    /\ Len(threads) = 1 /\ threads[1] = "ended"
    /\ events = <<>>
    /\ stopAsked /\ dialog = "none"
    /\ ~is_converting /\ ~gui_paused
    /\ ~paused /\ ~stop_requested

\* the places of the worker inside is_stop_requested or wait_if_paused
InControllerCall == {"check1_cs", "wait", "wait_cs", "sleep", "check2",
                     "check2_cs"}

\* the texts line 280 keeps of the chunks of the outermost frame, in order
KeptTexts ==
    LET kept(e) == IsTopOutcome(e) /\ ~StartsWith(e.t, BaiduErrorPrefix)
        s == SelectSeq(log, kept)
    IN  [k \in 1..Len(s) |-> s[k].t]

\* C38: called with task_controller = None, the loop makes no stop check
\* and no wait_if_paused, never returns the sentinel, and a run that
\* returns the aggregate has submitted all N chunks, whatever the flags of
\* a controller are; called with progress_callback = None it reports no
\* progress.  With or without a controller, a run in which no stop was seen
\* ends at line 299 (or 303 after an exception), and its aggregate is the
\* join of the texts line 280 keeps of its chunks: the same function of the
\* results of the recognitions in both cases.
C38_NoneControllerSameAggregate ==
    /\ ~task_controller =>
          /\ pc \notin InControllerCall
          /\ lock # "worker"
          /\ \A k \in 1..Len(stack) : stack[k].checks = <<>>
          /\ ~stopSeen
          /\ exit \notin SentinelExits
          /\ (pc = "done" /\ exit = 299) =>
                SubmittedIndices =
                   [j \in 1..ChunksNumber(audio.len) |-> j - 1]
    /\ ~progress_callback =>
          /\ progress = <<>>
          /\ \A k \in 1..Len(log) : log[k].ev # "progress"
    /\ (pc = "done" /\ ~stopSeen) => exit \in {299, 303}
    /\ (pc = "done" /\ exit = 299) => result = Join(KeptTexts)

\* C38 witness: a run without controller and callback has returned the
\* aggregate of its three chunks, with no report, although the flags of a
\* controller were both set meanwhile
C38_Witness ==
    /\ ~task_controller /\ ~progress_callback
    /\ pc = "done" /\ exit = 299
    /\ Len(SubmittedIndices) = 3
    /\ result = <<"a", "\n", "b">>
    /\ progress = <<>>
    /\ paused /\ stop_requested

====
